---- MODULE Spec2Model ----
(***************************************************************************)
(* Model of the math engine of src/src/App.tsx ("Number Volume Space"):    *)
(* the sieve tables, the triangle waves and the 17-split, trial-division   *)
(* factorization, the transparency / colorless / colour rules and the      *)
(* prime-bending part of selectedDetail.                                   *)
(*                                                                         *)
(* The engine is a set of pure functions.  Each is an operator computed    *)
(* the way the code computes it; the specification draws an argument n     *)
(* and applies one function to it, recording what the call produced        *)
(* (a returned value or a thrown exception).                               *)
(*                                                                         *)
(* The component NumberVolumeSpace adds the state of the display: the page, *)
(* the include-negatives toggle, the two filters and the dimension, with   *)
(* the bulk table (sourceData), its filtered view and the page count       *)
(* derived from them as the component's memos derive them.                 *)
(***************************************************************************)
EXTENDS Integers, Sequences, FiniteSets, TLC

\* The engine call: its argument, the function applied and what it produced.
VARIABLES n, call, ret

\* ---------------------------------------------------------------- bounds
\* How far beyond MAX_N (on either side) the drawn arguments go.
Beyond == 20
\* How far outside 0..5 the drawn dimensions go.
DimSlack == 1
\* The second numbers of a pair of numbers are drawn from -PairSpan..PairSpan.
PairSpan == 21

\* ------------------------------------------------------------- constants
MAX_N == 1680
WAVES == <<2, 3, 5, 7>>

Inputs == (0 - (MAX_N + Beyond))..(MAX_N + Beyond)
InRange == (0 - MAX_N)..MAX_N
Dims == (0 - DimSlack)..(5 + DimSlack)
ValidDims == 0..5

\* ------------------------------------------------- JavaScript primitives
\* A JavaScript number that may be NaN, and the value undefined, are
\* tagged records so that they can be told apart from integers.
Num(v) == [t |-> "number", v |-> v]
NaN == [t |-> "NaN"]
undefined == [t |-> "undefined"]
IsNum(a) == a.t = "number"

\* arr[i] of a JavaScript array (0-based); out of bounds reads undefined.
At(arr, i) == IF i + 1 \in DOMAIN arr THEN Num(arr[i + 1]) ELSE undefined

abs(x) == IF x < 0 THEN 0 - x ELSE x
min(a, b) == IF a <= b THEN a ELSE b
max(a, b) == IF a >= b THEN a ELSE b

\* a + b, a - b, Math.abs, Math.min, Math.max: NaN as soon as an operand is
\* not a number (undefined converts to NaN).
Add(a, b) == IF IsNum(a) /\ IsNum(b) THEN Num(a.v + b.v) ELSE NaN
Sub(a, b) == IF IsNum(a) /\ IsNum(b) THEN Num(a.v - b.v) ELSE NaN
MathAbs(a) == IF IsNum(a) THEN Num(abs(a.v)) ELSE NaN
MathMin(a, b) == IF IsNum(a) /\ IsNum(b) THEN Num(min(a.v, b.v)) ELSE NaN
MathMax(a, b) == IF IsNum(a) /\ IsNum(b) THEN Num(max(a.v, b.v)) ELSE NaN

\* What a call produced.
Return(v) == [kind |-> "return", value |-> v]
Throw(e) == [kind |-> "throw", error |-> e]

\* ---------------------------------------------------------- sieve tables
\* MarkMultiples starting after the square: j = i*i + i.
MarkMultiples_skipSquare(p, i) ==
  [j \in 0..MAX_N |-> IF j > i * i /\ (j - i * i) % i = 0 THEN FALSE ELSE p[j]]

\* The inner loop of the sieve: for (j = i*i; j <= MAX_N; j += i) p[j] = false
MarkMultiples(p, i) ==
  [j \in 0..MAX_N |-> IF j >= i * i /\ (j - i * i) % i = 0 THEN FALSE ELSE p[j]]

RECURSIVE SieveFrom(_, _)
SieveFrom(i, p) ==
  IF i * i > MAX_N THEN p
  ELSE SieveFrom(i + 1, IF p[i] THEN MarkMultiples(p, i) ELSE p)

\* new Array(MAX_N + 1).fill(true); p[0] = p[1] = false; then the sieve.
IS_PRIME == SieveFrom(2, [j \in 0..MAX_N |-> j >= 2])

\* c[0] = 0; c[i] = c[i-1] + (IS_PRIME[i] ? 1 : 0): the prefix sum, i.e. the
\* number of indices 1..i the sieve left marked.
PRIME_COUNT == [i \in 0..MAX_N |-> Cardinality({j \in 1..i : IS_PRIME[j]})]

\* `if (IS_PRIME[i])`: an index outside the table reads undefined, falsy.
IsPrimeAt(i) == i \in DOMAIN IS_PRIME /\ IS_PRIME[i]

\* ------------------------------------------------------------------ waves
\* waveLeft with Math.abs left out: JavaScript's % keeps the sign of n.
waveLeft_noAbs(x, k) ==
  LET m == IF x < 0 THEN 0 - ((0 - x) % (2 * k)) ELSE x % (2 * k)
  IN  k - min(m, 2 * k - m)

\* waveLeft without the fold at the midpoint: a sawtooth.
waveLeft_sawtooth(x, k) == k - (abs(x) % (2 * k))

\* waveLeft returning the distance itself (the right value) instead of k - it.
waveLeft_right(x, k) ==
  LET m == abs(x) % (2 * k)
  IN  min(m, 2 * k - m)

waveLeft(x, k) ==
  LET m == abs(x) % (2 * k)
  IN  k - min(m, 2 * k - m)

\* The parameter `dimension` of getSplit, getColorInfo and selectedDetail is
\* written dim below: dimension names the state of the display.
\* offsets with the inverse anchors in the wrong order.
offsets_slip == <<2, 1, 0, -1, -2, 0>>

offsets == <<2, 1, 0, -2, -1, 0>>

\* SplitL with the Math.abs of the inverse branch left out.
SplitL_noAbs(baseL, dim) ==
  LET off == At(offsets, dim)
  IN  IF dim < 3
      THEN Add(Num(baseL), off)
      ELSE Sub(Num(17), Add(Num(baseL), off))

\* const off = offsets[dimension]; L = baseL + off below dimension 3 and
\* 17 - (baseL + Math.abs(off)) from 3 on.
SplitL(baseL, dim) ==
  LET off == At(offsets, dim)
  IN  IF dim < 3
      THEN Add(Num(baseL), off)
      ELSE Sub(Num(17), Add(Num(baseL), MathAbs(off)))

\* getSplit with the R side of orthogonal entries 1 and 2 left unclamped.
getSplit_halfClamp(x, dim) ==
  LET w2 == waveLeft(x, 2)
      w3 == waveLeft(x, 3)
      w5 == waveLeft(x, 5)
      w7 == waveLeft(x, 7)
      baseL == w3 + w5 + w7
      L == SplitL(baseL, dim)
      R == Sub(Num(17), L)
      orthogonal ==
        << [L |-> L, R |-> R],
           [L |-> MathMax(Num(0), Sub(L, Num(1))), R |-> Add(R, Num(1))],
           [L |-> MathMax(Num(0), Sub(L, Num(2))), R |-> Add(R, Num(2))],
           [L |-> R, R |-> L],
           [L |-> MathMin(Num(17), Add(R, Num(1))), R |-> MathMax(Num(0), Sub(L, Num(1)))],
           [L |-> MathMin(Num(17), Add(R, Num(2))), R |-> MathMax(Num(0), Sub(L, Num(2)))] >>
  IN  [L |-> L, R |-> R, orthogonal |-> orthogonal, baseL |-> baseL,
       w2 |-> w2, w3 |-> w3, w5 |-> w5, w7 |-> w7]

getSplit(x, dim) ==
  LET w2 == waveLeft(x, 2)
      w3 == waveLeft(x, 3)
      w5 == waveLeft(x, 5)
      w7 == waveLeft(x, 7)
      baseL == w3 + w5 + w7
      L == SplitL(baseL, dim)
      R == Sub(Num(17), L)
      orthogonal ==
        << [L |-> L, R |-> R],
           [L |-> MathMax(Num(0), Sub(L, Num(1))), R |-> MathMin(Num(17), Add(R, Num(1)))],
           [L |-> MathMax(Num(0), Sub(L, Num(2))), R |-> MathMin(Num(17), Add(R, Num(2)))],
           [L |-> R, R |-> L],
           [L |-> MathMin(Num(17), Add(R, Num(1))), R |-> MathMax(Num(0), Sub(L, Num(1)))],
           [L |-> MathMin(Num(17), Add(R, Num(2))), R |-> MathMax(Num(0), Sub(L, Num(2)))] >>
  IN  [L |-> L, R |-> R, orthogonal |-> orthogonal, baseL |-> baseL,
       w2 |-> w2, w3 |-> w3, w5 |-> w5, w7 |-> w7]

\* ---------------------------------------------------------- factorization
\* f[p] = (f[p] || 0) + 1 on a Record<number, number>.
Bump(f, p) ==
  [q \in DOMAIN f \cup {p} |->
     IF q = p THEN (IF p \in DOMAIN f THEN f[p] ELSE 0) + 1 ELSE f[q]]

\* TrialDivide with the loop test p * p < m.
RECURSIVE TrialDivide_strict(_, _, _)
TrialDivide_strict(p, m, f) ==
  IF p * p < m
  THEN IF m % p = 0
       THEN TrialDivide_strict(p, m \div p, Bump(f, p))
       ELSE TrialDivide_strict(p + 1, m, f)
  ELSE IF m > 1 THEN Bump(f, m) ELSE f

\* for (p = 2; p * p <= m; p++) while (m % p === 0) { f[p]++; m /= p; }
\* if (m > 1) f[m]++
RECURSIVE TrialDivide(_, _, _)
TrialDivide(p, m, f) ==
  IF p * p <= m
  THEN IF m % p = 0
       THEN TrialDivide(p, m \div p, Bump(f, p))
       ELSE TrialDivide(p + 1, m, f)
  ELSE IF m > 1 THEN Bump(f, m) ELSE f

EmptyMap == [q \in {} |-> 0]

getFactorization(x) ==
  LET a == abs(x)
  IN  IF a < 2 THEN EmptyMap ELSE TrialDivide(2, a, EmptyMap)

\* DivideOut dividing once (an `if` for the `while`).
DivideOut_once(m, p) == IF m % p = 0 THEN m \div p ELSE m

\* while (m % p === 0) m /= p
RECURSIVE DivideOut(_, _)
DivideOut(m, p) == IF m % p = 0 THEN DivideOut(m \div p, p) ELSE m

\* The loop of isPrimePower returns at the first p in 2..a that the sieve
\* marks and that divides a; it falls through to `return false` when there
\* is none.
isPrimePower(a) ==
  IF a < 2 THEN FALSE
  ELSE LET hits == {p \in 2..a : IsPrimeAt(p) /\ a % p = 0}
       IN  IF hits = {} THEN FALSE
           ELSE LET p == CHOOSE h \in hits : \A g \in hits : h <= g
                IN  DivideOut(a, p) = 1

\* --------------------------------------------------- classification rules
\* abs > 1 && PRIME_COUNT[abs] % 2 === 1; outside the table the read is
\* undefined, undefined % 2 is NaN and NaN === 1 is false.
isTransparent(x) ==
  LET a == abs(x)
  IN  a > 1 /\ a \in DOMAIN PRIME_COUNT /\ PRIME_COUNT[a] % 2 = 1

\* The axis names; the source spells the minus of the last two with U+2212.
getPolarityAxis(x) ==
  LET a == abs(x)
      t == isTransparent(a)
  IN  IF a = 0 THEN "ORIGIN"
      ELSE IF a % 2 = 0 THEN (IF t THEN "TOP (T)" ELSE "BOTTOM (O)")
      ELSE IF x >= 0 THEN (IF t THEN "RIGHT+ (T)" ELSE "LEFT+ (O)")
      ELSE (IF t THEN "LEFT- (T)" ELSE "RIGHT- (O)")

COLOR_MAP ==
  << [label |-> "Zero",         bg |-> "#0D0D1A", text |-> "#4A4A6A", glow |-> ""],
     [label |-> "One",          bg |-> "#0F0F1F", text |-> "#3A3A5A", glow |-> ""],
     [label |-> "Prime",        bg |-> "#0A0A12", text |-> "#5A5A72", glow |-> "rgba(150,150,200,0.15)"],
     [label |-> "PrimePow",     bg |-> "#0C0C18", text |-> "#4A4A62", glow |-> "rgba(120,120,180,0.1)"],
     [label |-> "Colorless",    bg |-> "#08080C", text |-> "#3A3A4A", glow |-> ""],
     [label |-> "Blue",         bg |-> "#001E48", text |-> "#60B4FF", glow |-> "rgba(60,140,255,0.4)"],
     [label |-> "Yellow",       bg |-> "#3A2F00", text |-> "#FFE040", glow |-> "rgba(255,220,0,0.4)"],
     [label |-> "Red",          bg |-> "#3A0008", text |-> "#FF7080", glow |-> "rgba(255,60,80,0.4)"],
     [label |-> "Green",        bg |-> "#003D20", text |-> "#80FFB0", glow |-> "rgba(0,255,100,0.3)"],
     [label |-> "Purple",       bg |-> "#25004A", text |-> "#D090FF", glow |-> "rgba(160,80,255,0.35)"],
     [label |-> "Orange",       bg |-> "#4A2000", text |-> "#FFAA60", glow |-> "rgba(255,140,0,0.35)"],
     [label |-> "Brown",        bg |-> "#3E1A0A", text |-> "#D7A080", glow |-> "rgba(180,100,40,0.3)"],
     [label |-> "Silver",       bg |-> "#404050", text |-> "#D0D0E0", glow |-> "rgba(192,192,220,0.25)"],
     [label |-> "Gold",         bg |-> "#7A6000", text |-> "#FFE57F", glow |-> "rgba(255,215,0,0.4)"],
     [label |-> "Golden Brown", bg |-> "#7C5800", text |-> "#FFE082", glow |-> "rgba(255,200,0,0.3)"],
     [label |-> "Composite",    bg |-> "#141420", text |-> "#606080", glow |-> ""] >>

\* COLOR_MAP[i] with the source's 0-based index.
Color(i) == IF i + 1 \in DOMAIN COLOR_MAP THEN COLOR_MAP[i + 1] ELSE undefined

RECURSIVE SumValues(_, _)
SumValues(f, keys) ==
  IF keys = {} THEN 0
  ELSE LET p == CHOOSE q \in keys : TRUE
       IN  f[p] + SumValues(f, keys \ {p})

\* isColorless accepting every prime exponent, the even prime 2 included.
isColorless_anyPrimeExp(x) ==
  LET a == abs(x)
  IN  IF a < 2 \/ IsPrimeAt(a) THEN FALSE
      ELSE IF a = 2 \/ a = 3 \/ a = 5 \/ a = 7 THEN FALSE
      ELSE IF a % 2 = 0 THEN FALSE
      ELSE LET factors == getFactorization(a)
               keys == DOMAIN factors
               totalFactors == SumValues(factors, keys)
               q == factors[CHOOSE p \in keys : TRUE]
           IN  IF Cardinality(keys) = 1 /\ IsPrimeAt(q) THEN TRUE
               ELSE IF totalFactors = 2 /\ Cardinality(keys) = 2 THEN TRUE
               ELSE FALSE

isColorless(x) ==
  LET a == abs(x)
  IN  IF a < 2 \/ IsPrimeAt(a) THEN FALSE
      ELSE IF a = 2 \/ a = 3 \/ a = 5 \/ a = 7 THEN FALSE
      ELSE IF a % 2 = 0 THEN FALSE
      ELSE LET factors == getFactorization(a)
               keys == DOMAIN factors
               totalFactors == SumValues(factors, keys)
               q == factors[CHOOSE p \in keys : TRUE]
           IN  IF Cardinality(keys) = 1 /\ IsPrimeAt(q) /\ q % 2 = 0 THEN FALSE
               ELSE IF Cardinality(keys) = 1 /\ IsPrimeAt(q) /\ q % 2 # 0 THEN TRUE
               ELSE IF totalFactors = 2 /\ Cardinality(keys) = 2 THEN TRUE
               ELSE FALSE

\* shifts with a slip in the row of dimension 1: two roles share a colour.
shifts_typo ==
  << <<5, 6, 7>>, <<6, 6, 5>>, <<7, 5, 6>>, <<5, 7, 6>>, <<6, 5, 7>>, <<7, 6, 5>> >>

shifts ==
  << <<5, 6, 7>>, <<6, 7, 5>>, <<7, 5, 6>>, <<5, 7, 6>>, <<6, 5, 7>>, <<7, 6, 5>> >>

cGreen == 8
cPurple == 9
cOrange == 10
cBrown == 11

\* Fallback with the final `return COLOR_MAP[15]` missing: the function
\* falls off its end and returns undefined.
Fallback_noDefault(x) ==
  LET a == abs(x)
  IN  IF isColorless(x) THEN Color(4)
      ELSE IF IsPrimeAt(a) THEN Color(2)
      ELSE IF isPrimePower(a) THEN Color(3)
      ELSE undefined

\* The tail of getColorInfo: colorless, prime, prime power, else Composite.
Fallback(x) ==
  LET a == abs(x)
  IN  IF isColorless(x) THEN Color(4)
      ELSE IF IsPrimeAt(a) THEN Color(2)
      ELSE IF isPrimePower(a) THEN Color(3)
      ELSE Color(15)

\* The rules below `const [c2, c3, c7] = shifts[dimension]`.
ColorRules(x, c2, c3, c7) ==
  LET a == abs(x)
      isNeg == x < 0
      b2 == a % 2 = 0
      b3 == a % 3 = 0
      b7 == a % 7 = 0
  IN  IF a % 2 = 0 /\ a % 3 = 0 /\ a % 5 = 0 /\ a % 7 = 0 THEN Color(14)
      ELSE IF a % 2 = 0 /\ a % 5 = 0 THEN Color(13)
      ELSE IF a % 5 = 0 THEN Color(12)
      ELSE IF isNeg /\ b2 /\ b3 /\ b7 THEN Color(cBrown)
      ELSE IF isNeg /\ b3 /\ b7 THEN Color(c2)
      ELSE IF isNeg /\ b2 /\ b3 THEN Color(c7)
      ELSE IF isNeg /\ b2 /\ b7 THEN Color(c3)
      ELSE IF isNeg /\ b2 THEN Color(cOrange)
      ELSE IF isNeg /\ b3 THEN Color(cPurple)
      ELSE IF isNeg /\ b7 THEN Color(cGreen)
      ELSE IF ~isNeg /\ b2 /\ b3 /\ b7 THEN Color(cBrown)
      ELSE IF ~isNeg /\ b3 /\ b7 THEN Color(cOrange)
      ELSE IF ~isNeg /\ b2 /\ b3 THEN Color(cGreen)
      ELSE IF ~isNeg /\ b2 /\ b7 THEN Color(cPurple)
      ELSE IF ~isNeg /\ b2 THEN Color(c2)
      ELSE IF ~isNeg /\ b3 THEN Color(c3)
      ELSE IF ~isNeg /\ b7 THEN Color(c7)
      ELSE IF a = 2 THEN Color(c2)
      ELSE IF a = 3 THEN Color(c3)
      ELSE IF a = 7 THEN Color(c7)
      ELSE Fallback(x)

\* getColorInfo with the sign lost before the rules (isNeg taken from abs).
getColorInfo_noNeg(x, dim) ==
  LET a == abs(x)
  IN  IF a = 0 THEN Return(Color(0))
      ELSE IF a = 1 THEN Return(Color(1))
      ELSE IF dim + 1 \notin DOMAIN shifts THEN Throw("TypeError")
      ELSE LET s == shifts[dim + 1]
           IN  Return(ColorRules(a, s[1], s[2], s[3]))

\* getColorInfo testing Gold (2 and 5) ahead of Golden Brown (2, 3, 5, 7).
getColorInfo_goldFirst(x, dim) ==
  LET a == abs(x)
  IN  IF a = 0 THEN Return(Color(0))
      ELSE IF a = 1 THEN Return(Color(1))
      ELSE IF dim + 1 \notin DOMAIN shifts THEN Throw("TypeError")
      ELSE IF a % 2 = 0 /\ a % 5 = 0 THEN Return(Color(13))
      ELSE LET s == shifts[dim + 1]
           IN  Return(ColorRules(x, s[1], s[2], s[3]))

\* Destructuring shifts[dimension] throws a TypeError when the index is
\* outside the table (undefined is not iterable).
getColorInfo(x, dim) ==
  LET a == abs(x)
  IN  IF a = 0 THEN Return(Color(0))
      ELSE IF a = 1 THEN Return(Color(1))
      ELSE IF dim + 1 \notin DOMAIN shifts THEN Throw("TypeError")
      ELSE LET s == shifts[dim + 1]
           IN  Return(ColorRules(x, s[1], s[2], s[3]))

\* ------------------------------------------------- selectedDetail (useMemo)
QuadAnchors == {11, 13, 17, 19, 191, 193, 197, 199}

\* BendingCounterpart without the final % 210.
BendingCounterpart_noMod(cyclePos) == 210 - cyclePos

\* const bendingCounterpart = (210 - cyclePos) % 210
BendingCounterpart(cyclePos) == (210 - cyclePos) % 210

selectedDetail(selected, dim) ==
  LET a == abs(selected)
      sp == getSplit(selected, dim)
      ci == getColorInfo(selected, dim)
      cyclePos == a % 210
      bendingCounterpart == BendingCounterpart(cyclePos)
      isBendingPrime == cyclePos \in QuadAnchors
  IN  IF ci.kind = "throw" THEN ci
      ELSE Return(
        [n |-> selected, abs |-> a, L |-> sp.L, R |-> sp.R,
         orthogonal |-> sp.orthogonal, baseL |-> sp.baseL, ci |-> ci.value,
         tr |-> isTransparent(selected),
         factors |-> getFactorization(selected),
         axis |-> getPolarityAxis(selected),
         waveBreakdown |->
           << [k |-> 2, left |-> sp.w2, right |-> 2 - sp.w2],
              [k |-> 3, left |-> sp.w3, right |-> 3 - sp.w3],
              [k |-> 5, left |-> sp.w5, right |-> 5 - sp.w5],
              [k |-> 7, left |-> sp.w7, right |-> 7 - sp.w7] >>,
         isPrime |-> IF a \in DOMAIN IS_PRIME
                     THEN [t |-> "boolean", v |-> IS_PRIME[a]] ELSE undefined,
         isCorner |-> isBendingPrime,
         cyclePos |-> cyclePos,
         bendingCounterpart |-> bendingCounterpart,
         bendingPair |-> IF isBendingPrime THEN Num(210 - cyclePos)
                         ELSE [t |-> "null"]])

\* ------------------------------------------------------ precomputed tables
null == [t |-> "null"]

GRID_COLS == 14
PAGE_SIZE == GRID_COLS * 10

\* { n, L, R, orthogonal, ci, tr } with getSplit(n) and getColorInfo(n) at
\* their default dimension 0.
CellRecord(x) ==
  LET sp == getSplit(x, 0)
  IN  [n |-> x, L |-> sp.L, R |-> sp.R, orthogonal |-> sp.orthogonal,
       ci |-> getColorInfo(x, 0).value, tr |-> isTransparent(x)]

\* Array.from({ length: MAX_N + 1 }, (_, n) => ...)
CELL_DATA == [i \in 1..(MAX_N + 1) |-> CellRecord(i - 1)]

\* Array.prototype.reverse
Reverse(seq) == [i \in 1..Len(seq) |-> seq[Len(seq) + 1 - i]]

\* NEG_CELL_DATA with the .reverse() left out: -1 first.
NEG_CELL_DATA_unreversed == [i \in 1..MAX_N |-> CellRecord(0 - i)]

\* Array.from({ length: MAX_N }, (_, i) => record of -(i + 1)).reverse()
NEG_CELL_DATA == Reverse([i \in 1..MAX_N |-> CellRecord(0 - i)])

ALL_DATA == NEG_CELL_DATA \o CELL_DATA

\* ------------------------------------------------- NumberVolumeSpace memos
\* base.map(d => ({ ...d, L, R, orthogonal, ci })) with getSplit and
\* getColorInfo taken at the current dimension.
sourceData(neg, dim) ==
  LET base == IF neg THEN ALL_DATA ELSE CELL_DATA
  IN  [i \in 1..Len(base) |->
         LET d == base[i]
             sp == getSplit(d.n, dim)
         IN  [d EXCEPT !.L = sp.L, !.R = sp.R, !.orthogonal = sp.orthogonal,
                       !.ci = getColorInfo(d.n, dim).value]]

\* useMemo(..., [showNeg, dimension]): one table per value of the dependencies.
SOURCE_MEMO ==
  [neg \in BOOLEAN |-> [dim \in ValidDims |-> sourceData(neg, dim)]]

\* String.prototype.toLowerCase on the labels of COLOR_MAP.
ToLowerCase(label) ==
  CASE label = "Zero" -> "zero"
    [] label = "One" -> "one"
    [] label = "Prime" -> "prime"
    [] label = "PrimePow" -> "primepow"
    [] label = "Colorless" -> "colorless"
    [] label = "Blue" -> "blue"
    [] label = "Yellow" -> "yellow"
    [] label = "Red" -> "red"
    [] label = "Green" -> "green"
    [] label = "Purple" -> "purple"
    [] label = "Orange" -> "orange"
    [] label = "Brown" -> "brown"
    [] label = "Silver" -> "silver"
    [] label = "Gold" -> "gold"
    [] label = "Golden Brown" -> "golden brown"
    [] label = "Composite" -> "composite"

colorOptions ==
  << "all", "prime", "primepow", "colorless", "blue", "yellow", "red",
     "green", "purple", "orange", "brown", "silver", "gold", "golden brown",
     "composite" >>
ColorOptionSet == {colorOptions[i] : i \in DOMAIN colorOptions}

\* The bars of the split distribution: new Array(18), one per L in 0..17.
SplitBars == 0..17
SplitFilters == {null} \cup {Num(l) : l \in SplitBars}

HasColor(cf, x) == ToLowerCase(x.ci.label) = cf
HasSplit(sf, x) == x.L = sf

\* let d = sourceData; if (colorFilter !== 'all') d = d.filter(...);
\* if (splitFilter !== null) d = d.filter(...): each filter keeps every
\* record when its condition is off.
filteredData(neg, dim, cf, sf) ==
  SelectSeq(SelectSeq(SOURCE_MEMO[neg][dim],
                      LAMBDA x : cf # "all" => HasColor(cf, x)),
            LAMBDA x : sf # null => HasSplit(sf, x))

\* Math.ceil(length / PAGE_SIZE)
TotalPages(len) == (len + PAGE_SIZE - 1) \div PAGE_SIZE

\* The length of filteredData.slice(p * PAGE_SIZE, (p + 1) * PAGE_SIZE).
SliceLength(len, p) ==
  max(0, min(len, (p + 1) * PAGE_SIZE) - min(len, max(0, p * PAGE_SIZE)))

\* ----------------------------------------------------------- display state
VARIABLES page, showNeg, colorFilter, splitFilter, dimension

engineVars == <<n, call, ret>>
uiVars == <<page, showNeg, colorFilter, splitFilter, dimension>>
vars == <<n, call, ret, page, showNeg, colorFilter, splitFilter, dimension>>

\* The useState initial values.
UiInitial ==
  /\ page = 0
  /\ showNeg = FALSE
  /\ colorFilter = "all"
  /\ splitFilter = null
  /\ dimension = 0

\* filteredData.length with the current values of the dependencies of the memo.
filteredLength ==
  Len(filteredData(showNeg, dimension, colorFilter, splitFilter))
totalPages == TotalPages(filteredLength)

\* ---------------------------------------------------------------- actions
Init ==
  /\ n \in Inputs
  /\ UiInitial
  /\ call = [fn |-> "none"]
  /\ ret = [kind |-> "none"]

CallWaveLeft ==
  /\ call.fn = "none"
  /\ \E i \in DOMAIN WAVES :
       /\ call' = [fn |-> "waveLeft", k |-> WAVES[i]]
       /\ ret' = Return(waveLeft(n, WAVES[i]))
  /\ UNCHANGED <<n, uiVars>>

CallGetSplit ==
  /\ call.fn = "none"
  /\ \E d \in Dims :
       /\ call' = [fn |-> "getSplit", dimension |-> d]
       /\ ret' = Return(getSplit(n, d))
  /\ UNCHANGED <<n, uiVars>>

CallGetFactorization ==
  /\ call.fn = "none"
  /\ call' = [fn |-> "getFactorization"]
  /\ ret' = Return(getFactorization(n))
  /\ UNCHANGED <<n, uiVars>>

\* isPrimePower is handed a magnitude.
CallIsPrimePower ==
  /\ call.fn = "none"
  /\ n >= 0
  /\ call' = [fn |-> "isPrimePower"]
  /\ ret' = Return(isPrimePower(n))
  /\ UNCHANGED <<n, uiVars>>

CallIsTransparent ==
  /\ call.fn = "none"
  /\ call' = [fn |-> "isTransparent"]
  /\ ret' = Return(isTransparent(n))
  /\ UNCHANGED <<n, uiVars>>

CallGetPolarityAxis ==
  /\ call.fn = "none"
  /\ call' = [fn |-> "getPolarityAxis"]
  /\ ret' = Return(getPolarityAxis(n))
  /\ UNCHANGED <<n, uiVars>>

CallIsColorless ==
  /\ call.fn = "none"
  /\ call' = [fn |-> "isColorless"]
  /\ ret' = Return(isColorless(n))
  /\ UNCHANGED <<n, uiVars>>

CallGetColorInfo ==
  /\ call.fn = "none"
  /\ \E d \in Dims :
       /\ call' = [fn |-> "getColorInfo", dimension |-> d]
       /\ ret' = getColorInfo(n, d)
  /\ UNCHANGED <<n, uiVars>>

\* The component only selects a displayed cell (a record of ALL_DATA) and
\* only sets dimension from the buttons 0..5.
SelectedDetail ==
  /\ call.fn = "none"
  /\ n \in InRange
  /\ \E d \in ValidDims :
       /\ call' = [fn |-> "selectedDetail", dimension |-> d]
       /\ ret' = selectedDetail(n, d)
  /\ UNCHANGED <<n, uiVars>>

Next ==
  \/ CallWaveLeft
  \/ CallGetSplit
  \/ CallGetFactorization
  \/ CallIsPrimePower
  \/ CallIsTransparent
  \/ CallGetPolarityAxis
  \/ CallIsColorless
  \/ CallGetColorInfo
  \/ SelectedDetail

Spec == Init /\ [][Next]_vars

\* -------------------------------------------------- display: event handlers
\* No engine call is in flight while the display is used.
EngineIdle ==
  /\ n = 0
  /\ call = [fn |-> "none"]
  /\ ret = [kind |-> "none"]

UiInit == EngineIdle /\ UiInitial

\* onClick={() => setDimension(d)} of the six dimension buttons.
SetDimension ==
  /\ \E d \in ValidDims : dimension' = d
  /\ UNCHANGED <<engineVars, page, showNeg, colorFilter, splitFilter>>

\* onChange={(e) => { setShowNeg(e.target.checked); setPage(0); }}
ToggleNeg ==
  /\ showNeg' = ~showNeg
  /\ page' = 0
  /\ UNCHANGED <<engineVars, colorFilter, splitFilter, dimension>>

\* onChange={(e) => { setColorFilter(e.target.value); setPage(0); }}; a
\* select fires no change event for the option it already shows.
SetColorFilter ==
  /\ \E o \in ColorOptionSet : o # colorFilter /\ colorFilter' = o
  /\ page' = 0
  /\ UNCHANGED <<engineVars, showNeg, splitFilter, dimension>>

\* onClick={() => { setSplitFilter(splitFilter === L ? null : L); setPage(0); }}
ToggleSplitFilter ==
  /\ \E l \in SplitBars :
       splitFilter' = IF splitFilter = Num(l) THEN null ELSE Num(l)
  /\ page' = 0
  /\ UNCHANGED <<engineVars, showNeg, colorFilter, dimension>>

\* setPage((p) => Math.max(0, p - 1)), disabled={page === 0}
PrevPage ==
  /\ page # 0
  /\ page' = max(0, page - 1)
  /\ UNCHANGED <<engineVars, showNeg, colorFilter, splitFilter, dimension>>

\* setPage((p) => Math.min(totalPages - 1, p + 1)),
\* disabled={page >= totalPages - 1}
NextPage ==
  /\ ~(page >= totalPages - 1)
  /\ page' = min(totalPages - 1, page + 1)
  /\ UNCHANGED <<engineVars, showNeg, colorFilter, splitFilter, dimension>>

\* The display with its filters left alone: dimension, negatives, paging.
TableNext ==
  \/ SetDimension
  \/ ToggleNeg
  \/ PrevPage
  \/ NextPage

TableSpec == UiInit /\ [][TableNext]_vars

\* The display with every control.
UiNext ==
  \/ SetDimension
  \/ ToggleNeg
  \/ SetColorFilter
  \/ ToggleSplitFilter
  \/ PrevPage
  \/ NextPage

UiSpec == UiInit /\ [][UiNext]_vars

\* ------------------------------------------------------ reference notions
\* Primality by definition (no divisor strictly between 1 and p), used to
\* judge the sieve; and the primes up to MAX_N by that definition.
IsPrimeRef(p) == p >= 2 /\ \A d \in 2..(p - 1) : p % d # 0
PrimesRef == {p \in 2..MAX_N : IsPrimeRef(p)}

RECURSIVE Pow(_, _)
Pow(b, e) == IF e = 0 THEN 1 ELSE b * Pow(b, e - 1)

RECURSIVE ProductOf(_, _)
ProductOf(f, keys) ==
  IF keys = {} THEN 1
  ELSE LET p == CHOOSE q \in keys : TRUE
       IN  Pow(p, f[p]) * ProductOf(f, keys \ {p})

Labels ==
  {"Zero", "One", "Prime", "PrimePow", "Colorless", "Blue", "Yellow", "Red",
   "Green", "Purple", "Orange", "Brown", "Silver", "Gold", "Golden Brown",
   "Composite"}

\* ------------------------------------------------------------------ claims
\* C1: for |n| <= MAX_N and a dimension in 0..5, getSplit returns a primary
\* split with L a number in 0..17 and R = 17 - L, so L + R = 17.
PrimarySplitSums17 ==
  (call.fn = "getSplit" /\ n \in InRange /\ call.dimension \in ValidDims) =>
    /\ IsNum(ret.value.L) /\ IsNum(ret.value.R)
    /\ ret.value.L.v \in 0..17
    /\ ret.value.R.v = 17 - ret.value.L.v
    /\ ret.value.L.v + ret.value.R.v = 17

\* C1 witness: an inverse dimension at the boundary L = 0 (baseL = 15).
PrimarySplitAtBoundary ==
  /\ call.fn = "getSplit" /\ n \in InRange /\ call.dimension = 3
  /\ ret.value.baseL = 15 /\ ret.value.L = Num(0) /\ ret.value.R = Num(17)

\* C2: waveLeft has period 2k: waveLeft(n, k) = waveLeft(n + 2k, k) for every
\* drawn n (negative, zero, positive) and every k of WAVES.
WaveLeftPeriodic ==
  call.fn = "waveLeft" => ret.value = waveLeft(n + 2 * call.k, call.k)

\* C2 witness: a negative n whose shift by 2k is not negative, off the peak.
WaveLeftAcrossZero ==
  /\ call.fn = "waveLeft" /\ n < 0 /\ n + 2 * call.k >= 0
  /\ call.k = 7 /\ ret.value = 4

\* C3: for n in range waveLeft(n, k) is in 0..k, and baseL = w3 + w5 + w7 is
\* in 0..15.
WaveLeftInRange ==
  /\ (call.fn = "waveLeft" /\ n \in InRange) => ret.value \in 0..call.k
  /\ (call.fn = "getSplit" /\ n \in InRange) =>
       /\ ret.value.baseL \in 0..15
       /\ ret.value.baseL = ret.value.w3 + ret.value.w5 + ret.value.w7
       /\ ret.value.w2 \in 0..2 /\ ret.value.w3 \in 0..3
       /\ ret.value.w5 \in 0..5 /\ ret.value.w7 \in 0..7

\* C3 witness: a wave at its trough (left value 0) past its midpoint.
WaveLeftAtTrough ==
  /\ call.fn = "waveLeft" /\ n \in InRange /\ call.k = 5
  /\ abs(n) % 10 = 5 /\ ret.value = 0

\* C4: for 2 <= |n| <= MAX_N getFactorization(n) has only prime keys with
\* positive exponents and the product of p^e is |n|; for |n| < 2 the map is
\* empty.
FactorizationRoundTrip ==
  (call.fn = "getFactorization" /\ n \in InRange) =>
    LET f == ret.value
    IN  IF abs(n) < 2 THEN DOMAIN f = {}
        ELSE /\ \A p \in DOMAIN f : IsPrimeRef(p) /\ f[p] >= 1
             /\ ProductOf(f, DOMAIN f) = abs(n)

\* C4 witness: a negative n with four prime factors, one of them squared.
FactorizationOfRichNumber ==
  /\ call.fn = "getFactorization" /\ n < 0 /\ n \in InRange
  /\ DOMAIN ret.value = {2, 3, 5, 7} /\ ret.value[3] = 2

\* C5: for |n| <= MAX_N isTransparent(n) is true exactly when |n| > 1 and the
\* number of primes <= |n| (by the reference definition) is odd; so it agrees
\* on n and -n.
TransparencyIsPrimeCountParity ==
  (call.fn = "isTransparent" /\ n \in InRange) =>
    /\ ret.value =
         (abs(n) > 1 /\ Cardinality({p \in PrimesRef : p <= abs(n)}) % 2 = 1)
    /\ ret.value = isTransparent(0 - n)

\* C5 witness: a transparent negative number beyond the first prime squares.
TransparentNegative ==
  /\ call.fn = "isTransparent" /\ n < -100 /\ n \in InRange /\ ret.value = TRUE

\* C6: for a selected n in range, cyclePos = |n| mod 210, the counterpart is
\* in 0..209, cyclePos + counterpart is 0 mod 210, the counterpart is 0 when
\* cyclePos is 0, and the quad-anchor flag is true iff cyclePos is one of
\* 11, 13, 17, 19, 191, 193, 197, 199 (n = 17: cyclePos 17, flag, 193).
PrimeBending ==
  (call.fn = "selectedDetail" /\ n \in InRange) =>
    /\ ret.kind = "return"
    /\ ret.value.cyclePos = abs(n) % 210
    /\ ret.value.bendingCounterpart \in 0..209
    /\ (ret.value.cyclePos + ret.value.bendingCounterpart) % 210 = 0
    /\ (ret.value.cyclePos = 0 => ret.value.bendingCounterpart = 0)
    /\ ret.value.isCorner =
         (ret.value.cyclePos \in {11, 13, 17, 19, 191, 193, 197, 199})
    /\ (n = 17 => /\ ret.value.cyclePos = 17
                  /\ ret.value.isCorner
                  /\ ret.value.bendingCounterpart = 193)

\* C6 witness: a non-zero multiple of 210 is selected (cyclePos 0).
SelectedOnCycleStart ==
  /\ call.fn = "selectedDetail" /\ n # 0 /\ ret.kind = "return"
  /\ ret.value.cyclePos = 0 /\ ret.value.bendingCounterpart = 0
  /\ ~ret.value.isCorner

\* C7: for n in [-MAX_N, MAX_N] and a dimension in 0..5 getColorInfo returns
\* exactly one entry of the 16-entry COLOR_MAP, never undefined.
ColorTotal ==
  (call.fn = "getColorInfo" /\ n \in InRange /\ call.dimension \in ValidDims) =>
    /\ ret.kind = "return"
    /\ ret.value # undefined
    /\ Cardinality({i \in DOMAIN COLOR_MAP : COLOR_MAP[i] = ret.value}) = 1
    /\ ret.value.label \in Labels
    /\ Len(COLOR_MAP) = 16 /\ Cardinality(Labels) = 16

\* C7 witness: the last rule of the chain, the Composite default, is reached
\* by a negative number.
ColorDefaultReached ==
  /\ call.fn = "getColorInfo" /\ n < 0 /\ n \in InRange
  /\ call.dimension \in ValidDims
  /\ ret.kind = "return" /\ ret.value.label = "Composite"

\* C8: a dimension outside 0..5 is rejected with a Configuration error:
\* neither getSplit nor getColorInfo returns a value for it.
InvalidDimensionRejected ==
  (call.fn \in {"getSplit", "getColorInfo"} /\ call.dimension \notin ValidDims) =>
    ret = Throw("ConfigurationError")

\* C9: for |n| > MAX_N the sieve-dependent classifications fail with an
\* Out-of-Range error instead of returning a default.
OutOfRangeRejected ==
  (call.fn \in {"isTransparent", "isColorless", "getColorInfo"} /\ n \notin InRange) =>
    ret = Throw("OutOfRangeError")

\* C10 (as stated): getColorInfo(0, 0) is Zero and getSplit(0, 0) has
\* baseL = 0, L = 2, R = 15.
ScenarioZeroAsStated ==
  /\ (call.fn = "getColorInfo" /\ n = 0 /\ call.dimension = 0) =>
       (ret.kind = "return" /\ ret.value.label = "Zero")
  /\ (call.fn = "getSplit" /\ n = 0 /\ call.dimension = 0) =>
       (ret.value.baseL = 0 /\ ret.value.L = Num(2) /\ ret.value.R = Num(15))

\* C10 (amended): getColorInfo(0, 0) is Zero and getSplit(0, 0) has
\* baseL = 15, L = 17, R = 0: every wave is at its peak at n = 0.
ScenarioZero ==
  /\ (call.fn = "getColorInfo" /\ n = 0 /\ call.dimension = 0) =>
       (ret.kind = "return" /\ ret.value.label = "Zero")
  /\ (call.fn = "getSplit" /\ n = 0 /\ call.dimension = 0) =>
       (ret.value.baseL = 15 /\ ret.value.L = Num(17) /\ ret.value.R = Num(0))

\* C10 witness: getSplit has been applied to n = 0 at dimension 0.
SplitOfZeroTaken ==
  /\ call.fn = "getSplit" /\ n = 0 /\ call.dimension = 0
  /\ ret.kind = "return" /\ ret.value.w2 = 2

\* C11 (as stated): getFactorization(9) is {3:2}, isPrimePower(9) is true,
\* isColorless(9) is false and getColorInfo(9, 0) has label PrimePow.
ScenarioNineAsStated ==
  n = 9 =>
    /\ call.fn = "getFactorization" =>
         (DOMAIN ret.value = {3} /\ ret.value[3] = 2)
    /\ call.fn = "isPrimePower" => ret.value = TRUE
    /\ call.fn = "isColorless" => ret.value = FALSE
    /\ (call.fn = "getColorInfo" /\ call.dimension = 0) =>
         (ret.kind = "return" /\ ret.value.label = "PrimePow")

\* C11 (amended): getFactorization(9) is {3:2}, isPrimePower(9) is true,
\* isColorless(9) is false and getColorInfo(9, 0) has label Yellow: the
\* multiple-of-3 rule fires before the prime-power check is reached.
ScenarioNine ==
  n = 9 =>
    /\ call.fn = "getFactorization" =>
         (DOMAIN ret.value = {3} /\ ret.value[3] = 2)
    /\ call.fn = "isPrimePower" => ret.value = TRUE
    /\ call.fn = "isColorless" => ret.value = FALSE
    /\ (call.fn = "getColorInfo" /\ call.dimension = 0) =>
         (ret.kind = "return" /\ ret.value.label = "Yellow")

\* C11 witness: isPrimePower has been applied to 9.
PrimePowerOfNineTaken ==
  call.fn = "isPrimePower" /\ n = 9 /\ ret.value = TRUE

\* The factor of {2, 3, 7} that does not divide a, when exactly two do.
ExactlyTwoOf237(a) == Cardinality({r \in {2, 3, 7} : a % r = 0}) = 2
AbsentFactor(a) == CHOOSE r \in {2, 3, 7} : a % r # 0

\* C12: a negative n in range, not divisible by 5, whose magnitude is
\* divisible by exactly two of 2, 3, 7 gets, under every dimension d, the base
\* colour d gives the absent third factor (n = -14, d = 0: Yellow); a
\* positive n gets Orange (3 & 7), Green (2 & 3), Purple (2 & 7).
NegativePairsMapToThird ==
  (/\ call.fn = "getColorInfo" /\ n \in InRange /\ call.dimension \in ValidDims
   /\ abs(n) % 5 # 0 /\ ExactlyTwoOf237(abs(n))) =>
    LET third == AbsentFactor(abs(n))
    IN  /\ ret.kind = "return"
        /\ n < 0 =>
             /\ ret = getColorInfo(third, call.dimension)
             /\ ret = getColorInfo(third * 11, call.dimension)
             /\ ret.value.label \in {"Blue", "Yellow", "Red"}
        /\ (n = -14 /\ call.dimension = 0) => ret.value.label = "Yellow"
        /\ n > 0 =>
             ret.value.label = (IF third = 2 THEN "Orange"
                                ELSE IF third = 7 THEN "Green" ELSE "Purple")

\* C12 witness: a negative multiple of 3 and 7 (not 2, not 5) coloured with
\* the colour of 2 under a dimension that permutes the base colours.
NegativePairColoured ==
  /\ call.fn = "getColorInfo" /\ n < -21 /\ n \in InRange /\ call.dimension = 4
  /\ abs(n) % 21 = 0 /\ abs(n) % 2 # 0 /\ abs(n) % 5 # 0
  /\ ret.kind = "return" /\ ret.value.label = "Yellow"

\* The numbers a drawn n is paired with, and their label under every dimension.
Partners == (0 - PairSpan)..PairSpan
PartnerLabel ==
  [b \in Partners |-> [d \in ValidDims |-> getColorInfo(b, d).value.label]]

\* C13: the dimension relabels colours and never regroups numbers: n and a
\* partner b have the same label under d1 iff they have the same label under
\* d2, for all dimensions d1, d2 in 0..5; and a label other than Blue, Yellow,
\* Red is the label of n under all six dimensions.
DimensionOnlyRelabels ==
  (call.fn = "getColorInfo" /\ n \in InRange /\ call.dimension \in ValidDims) =>
    \A d2 \in ValidDims :
      LET l1 == ret.value.label
          l2 == getColorInfo(n, d2).value.label
      IN  /\ \A b \in Partners :
               (l1 = PartnerLabel[b][call.dimension]) <=> (l2 = PartnerLabel[b][d2])
          /\ l1 \notin {"Blue", "Yellow", "Red"} => l2 = l1

\* C13 witness: a number whose label is a base colour other than the one it
\* has under dimension 0.
RelabelledBaseColour ==
  /\ call.fn = "getColorInfo" /\ n \in InRange /\ call.dimension = 2
  /\ abs(n) > PairSpan /\ ret.kind = "return" /\ ret.value.label = "Red"
  /\ getColorInfo(n, 0).value.label = "Blue"

\* C15: dimensions 3, 4, 5 are the inverses of 0, 1, 2: for n in range and d
\* in 0..2, getSplit(n, d + 3) is getSplit(n, d) with L and R swapped, and
\* baseL, w2, w3, w5, w7 are the same under all six dimensions.
InverseDimensionsSwap ==
  (call.fn = "getSplit" /\ n \in InRange /\ call.dimension \in 0..2) =>
    /\ getSplit(n, call.dimension + 3).L = ret.value.R
    /\ getSplit(n, call.dimension + 3).R = ret.value.L
    /\ IsNum(ret.value.L) /\ IsNum(ret.value.R)
    /\ \A d2 \in ValidDims :
         LET s2 == getSplit(n, d2)
         IN  /\ s2.baseL = ret.value.baseL /\ s2.w2 = ret.value.w2
             /\ s2.w3 = ret.value.w3 /\ s2.w5 = ret.value.w5
             /\ s2.w7 = ret.value.w7

\* C15 witness: a split with L # R taken at dimension 1, off the anchors.
SplitTakenAtDimensionOne ==
  /\ call.fn = "getSplit" /\ n \in InRange /\ call.dimension = 1
  /\ ret.value.L = Num(5) /\ ret.value.R = Num(12)

\* Entry i of the orthogonal sequence sums to 17.
EntrySums17(e) == IsNum(e.L) /\ IsNum(e.R) /\ e.L.v + e.R.v = 17

\* C16 (as stated): for some n in range and some dimension in 0..5 an entry
\* of getSplit(n, d).orthogonal has L + R # 17.  Stated where getSplit has
\* been applied: some argument pair that could have been drawn breaks the sum.
OrthogonalSumCanBreak ==
  call.fn = "getSplit" =>
    \E x \in InRange, d \in ValidDims :
      \E i \in 1..6 : ~EntrySums17(getSplit(x, d).orthogonal[i])

\* C16 (amended): the clamping never breaks the sum: for every n in range and
\* every dimension in 0..5 all six entries of getSplit(n, d).orthogonal have
\* L + R = 17 (L - j is clamped at 0 exactly when R + j is clamped at 17).
OrthogonalSums17 ==
  (call.fn = "getSplit" /\ n \in InRange /\ call.dimension \in ValidDims) =>
    /\ Len(ret.value.orthogonal) = 6
    /\ \A i \in 1..6 : EntrySums17(ret.value.orthogonal[i])

\* C16 witness: both clamps act: L = 0, so entry 2 is 0|17 and not -2|19.
OrthogonalClamped ==
  /\ call.fn = "getSplit" /\ n \in InRange /\ call.dimension = 2
  /\ ret.value.L = Num(0)
  /\ ret.value.orthogonal[3] = [L |-> Num(0), R |-> Num(17)]
  /\ ret.value.orthogonal[6] = [L |-> Num(17), R |-> Num(0)]

\* C17: the 5-rules come first: for 2 <= |n| <= MAX_N, either sign, every
\* dimension, the label is Golden Brown iff 210 | n, Gold iff 10 | n and not
\* 210 | n, Silver iff 5 | n and not 2 | n; so a multiple of 5 has no other
\* label (n = 15 is Silver although isColorless(15) is true).
FiveRulesFirst ==
  (/\ call.fn = "getColorInfo" /\ n \in InRange /\ abs(n) >= 2
   /\ call.dimension \in ValidDims) =>
    LET a == abs(n)
        l == ret.value.label
    IN  /\ ret.kind = "return"
        /\ (l = "Golden Brown") <=> (a % 210 = 0)
        /\ (l = "Gold") <=> (a % 10 = 0 /\ a % 210 # 0)
        /\ (l = "Silver") <=> (a % 5 = 0 /\ a % 2 # 0)
        /\ a % 5 = 0 => l \in {"Golden Brown", "Gold", "Silver"}
        /\ n = 15 => (l = "Silver" /\ isColorless(15))

\* C17 witness: a negative colorless multiple of 5 is Silver under an
\* inverse dimension.
SilverThoughColorless ==
  /\ call.fn = "getColorInfo" /\ n < 0 /\ n \in InRange /\ call.dimension = 5
  /\ isColorless(n) /\ ret.kind = "return" /\ ret.value.label = "Silver"

\* |n| = p^q for a prime p and an odd prime q, or |n| = p * r for two
\* distinct primes, by the reference definition of primality.
RECURSIVE IsPowerOf(_, _, _)
IsPowerOf(a, p, q) ==
  IF q = 0 THEN a = 1 ELSE a % p = 0 /\ IsPowerOf(a \div p, p, q - 1)
OddPrimePowerRef(a) ==
  \E p \in PrimesRef : \E q \in 3..11 :
    IsPrimeRef(q) /\ IsPowerOf(a, p, q)
TwoDistinctPrimesRef(a) ==
  \E p \in PrimesRef :
    a % p = 0 /\ (a \div p) \in PrimesRef /\ (a \div p) # p

\* C18: for |n| <= MAX_N isColorless(n) is true iff |n| is odd and either
\* |n| = p^q (p prime, q an odd prime) or |n| = p * r (p, r distinct
\* primes); false for primes, even numbers, p^2 and every other odd composite.
ColorlessCharacterised ==
  (call.fn = "isColorless" /\ n \in InRange) =>
    LET a == abs(n)
    IN  ret.value =
          (a % 2 = 1 /\ (OddPrimePowerRef(a) \/ TwoDistinctPrimesRef(a)))

\* C18 witness: the cube of a prime, negative, is colorless.
ColorlessPrimeCube ==
  call.fn = "isColorless" /\ n = -1331 /\ ret.value = TRUE

\* C19: at the default dimension 0 the left value of the 17-split is the sum
\* of the left values of all four waves: L = w2 + w3 + w5 + w7.
SplitLeftIsSumOfFourWaves ==
  (call.fn = "getSplit" /\ n \in InRange /\ call.dimension = 0) =>
    ret.value.L =
      Num(waveLeft(n, 2) + waveLeft(n, 3) + waveLeft(n, 5) + waveLeft(n, 7))


\* C14: the table handed to the display is ordered by strictly ascending n
\* and complete (one record per integer of -MAX_N..MAX_N with negatives,
\* of 0..MAX_N without), and after any sequence of dimension changes and
\* include-negatives toggles each record's L, R, orthogonal and colour are
\* getSplit(n, dimension) and getColorInfo(n, dimension) at the current
\* dimension, its transparency being that of the precomputed record.
BulkTableOrderedCompleteCurrent ==
  LET src == SOURCE_MEMO[showNeg][dimension]
      base == IF showNeg THEN ALL_DATA ELSE CELL_DATA
      lo == IF showNeg THEN 0 - MAX_N ELSE 0
  IN  /\ Len(src) = MAX_N - lo + 1
      /\ src[1].n = lo
      /\ src[Len(src)].n = MAX_N
      /\ \A i \in 1..(Len(src) - 1) : src[i].n < src[i + 1].n
      /\ \A i \in 1..Len(src) :
           LET d == src[i]
               sp == getSplit(d.n, dimension)
           IN  /\ d.L = sp.L
               /\ d.R = sp.R
               /\ d.orthogonal = sp.orthogonal
               /\ d.ci = getColorInfo(d.n, dimension).value
               /\ d.tr = isTransparent(d.n)
               /\ d.tr = base[i].tr

\* C14 witness: negatives are included, the dimension has been changed to
\* an inverse one and the table has been paged: the first record is -MAX_N
\* and record 0 sits in the middle, relabelled for dimension 4.
BulkTableWithNegativesAtDimensionFour ==
  /\ showNeg
  /\ dimension = 4
  /\ page = 2
  /\ SOURCE_MEMO[showNeg][dimension][1].n = 0 - MAX_N
  /\ SOURCE_MEMO[showNeg][dimension][MAX_N + 1].n = 0
  /\ SOURCE_MEMO[showNeg][dimension][MAX_N + 1].L = getSplit(0, 4).L

\* C20 as stated: after any sequence of display actions the page index is
\* within 0..max(0, totalPages - 1), and the displayed slice is not empty
\* while filteredData is not empty.
PaginationStaysInRange ==
  /\ 0 <= page
  /\ page <= max(0, totalPages - 1)
  /\ filteredLength > 0 => SliceLength(filteredLength, page) > 0
====
